---- MODULE Spec2Model ----
(***************************************************************************)
(* Model of book_maker/translator/llamacpp_translator.py: the LLaMACpp     *)
(* translator, its request composition and its context window.            *)
(*                                                                         *)
(* A Python string is modelled as a sequence of pieces.  The characters    *)
(* of source texts and of server replies are individual pieces ("\n" is    *)
(* the newline character); literal fragments of the configuration (the     *)
(* prompt template, the system message, the language name) are kept as     *)
(* one piece each.  String concatenation is \o.                            *)
(***************************************************************************)
EXTENDS Integers, Sequences, FiniteSets, TLC

(* ------------------------------ bounds --------------------------------- *)

\* Largest context_paragraph_limit the constructor is given in the model.
MaxLimit == 2

\* Number of successful replies the server gives in one behaviour.
MaxCalls == 3

\* Number of successful replies when two threads share the instance.
ConcCalls == 2

\* Longest raw reply of the reply space used to exercise the clean-up.
MaxReplyLen == 5

(* --------------------------- input universes --------------------------- *)

\* The caller threads that may share the instance.
Threads == {1, 2}

NL == "\n"

\* Source paragraphs handed to translate.
Texts == {<<"p">>, <<"q">>}

\* Raw reply strings of the server (choices[0].message.content).
Replies == {<< >>, <<"a">>, <<"a", NL, NL, NL, NL, "b">>}

\* Every reply over {"a", newline} of length at most MaxReplyLen.
ReplySpace == UNION {[1..n -> {"a", NL}] : n \in 0..MaxReplyLen}

\* Exceptions raised inside the try block of translate: requests.post
\* (connection error, timeout), raise_for_status, r.json(), and the
\* subscripting data["choices"][0]["message"]["content"].
FailureKinds == {"ConnectionError", "Timeout", "HTTPError", "JSONDecodeError", "KeyError"}

\* JSON values of choices[0].message.content that are not strings.
NonStrings == {"null", "number", "object"}

\* Values context_paragraph_limit is constructed with (no validation).
Limits == (0 - 1)..MaxLimit

(* ---------------------------- configuration ---------------------------- *)

language == <<"French">>

\* The three backquote characters that delimit the text in the template.
FENCE == "<3 backquotes>"

prompt_template ==
    << "Help me translate the text within triple backticks into ",
       "{language}",
       ".", NL, "Provide only the translated result.", NL, FENCE,
       "{text}",
       FENCE >>

prompt_sys_msg == <<"You are a helpful assistant.">>

(* ------------------------------ helpers -------------------------------- *)

\* str.format(text=..., language=...) on a template of literal pieces and
\* the two named placeholders.
RECURSIVE Format(_, _, _)
Format(tpl, text, lang) ==
    IF tpl = << >> THEN << >>
    ELSE (CASE Head(tpl) = "{text}"     -> text
            [] Head(tpl) = "{language}" -> lang
            [] OTHER                    -> <<Head(tpl)>>)
         \o Format(Tail(tpl), text, lang)

\* Variant: the paragraphs are joined with a single newline.
RECURSIVE JoinSingleNewline(_)
JoinSingleNewline(list) ==
    IF list = << >> THEN << >>
    ELSE IF Len(list) = 1 THEN list[1]
    ELSE list[1] \o <<NL>> \o JoinSingleNewline(Tail(list))

\* "\n\n".join(list)
RECURSIVE Join(_)
Join(list) ==
    IF list = << >> THEN << >>
    ELSE IF Len(list) = 1 THEN list[1]
    ELSE list[1] \o <<NL, NL>> \o Join(Tail(list))

\* Length of the run of newlines at the head of s.
RECURSIVE NewlineRun(_)
NewlineRun(s) ==
    IF s = << >> \/ Head(s) # NL THEN 0 ELSE 1 + NewlineRun(Tail(s))

\* Variant: the pattern "\n{3}" matches exactly three newlines.
RECURSIVE CleanupFixed3(_)
CleanupFixed3(s) ==
    IF s = << >> THEN << >>
    ELSE IF NewlineRun(s) >= 3
         THEN <<NL, NL>> \o CleanupFixed3(SubSeq(s, 4, Len(s)))
         ELSE <<Head(s)>> \o CleanupFixed3(Tail(s))

\* re.sub("\n{3,}", "\n\n", s): scan left to right; where a greedy match of
\* three or more newlines starts, emit two newlines and skip the match.
RECURSIVE Cleanup(_)
Cleanup(s) ==
    IF s = << >> THEN << >>
    ELSE IF NewlineRun(s) >= 3
         THEN <<NL, NL>> \o Cleanup(SubSeq(s, NewlineRun(s) + 1, Len(s)))
         ELSE <<Head(s)>> \o Cleanup(Tail(s))

\* Variant: list.pop() removes the newest entry.
PopLast(list) == SubSeq(list, 1, Len(list) - 1)

\* list.pop(0)
Pop0(list) == Tail(list)

(* ------------------------------- state --------------------------------- *)

VARIABLES
    context_flag,             \* self.context_flag
    context_paragraph_limit,  \* self.context_paragraph_limit
    context_list,             \* self.context_list
    context_translated_list,  \* self.context_translated_list
    workers,                  \* number of threads calling translate on the instance
    pc,                       \* per thread: position inside translate / save_context
    text,                     \* per thread: argument of the current (or last) call
    messages,                 \* per thread: payload["messages"] of the current (or last) call
    t_text,                   \* per thread: local t_text after the clean-up
    response,                 \* per thread: outcome of the HTTP exchange and its content
    outcome,                  \* per thread: "none", "returned" or "raised"
    result,                   \* per thread: value returned by the last completed call
    entry,                    \* per thread: the window as it stood when the call started
    log,                      \* (text, returned reply) of the successful calls, in order
    overlapped                \* TRUE once two calls have been in flight together

vars == << context_flag, context_paragraph_limit, context_list,
           context_translated_list, workers, pc, text, messages, t_text,
           response, outcome, result, entry, log, overlapped >>

config == << context_flag, context_paragraph_limit, workers >>

NoResponse == [kind |-> "none", content |-> << >>]

(* -------------------------- request composition ------------------------ *)

create_context_messages ==
    IF ~context_flag \/ context_list = << >>
    THEN << >>
    ELSE << [role |-> "user",
             content |-> Format(prompt_template, Join(context_list), language)],
            [role |-> "assistant",
             content |-> Join(context_translated_list)] >>

\* Variant: the live message is put before the context messages.
create_messages_live_first(txt, intermediate_messages) ==
    <<[role |-> "user", content |-> Format(prompt_template, txt, language)]>>
    \o intermediate_messages

create_messages(txt, intermediate_messages) ==
    LET current_msg == [role |-> "user",
                        content |-> Format(prompt_template, txt, language)]
    IN  (IF intermediate_messages # << >> THEN intermediate_messages ELSE << >>)
        \o <<current_msg>>

\* payload["messages"] of translate
PayloadMessages(txt) ==
    <<[role |-> "system", content |-> prompt_sys_msg]>>
    \o create_messages(txt, create_context_messages)

(* ------------------------------ construction --------------------------- *)

\* __init__ with the given context_flag, context_paragraph_limit, shared by
\* w caller threads.
Construct(flags, limits, w) ==
    /\ context_flag \in flags
    /\ context_paragraph_limit \in limits
    /\ context_list = << >>
    /\ context_translated_list = << >>
    /\ workers = w
    /\ pc = [t \in Threads |-> "idle"]
    /\ text = [t \in Threads |-> << >>]
    /\ messages = [t \in Threads |-> << >>]
    /\ t_text = [t \in Threads |-> << >>]
    /\ response = [t \in Threads |-> NoResponse]
    /\ outcome = [t \in Threads |-> "none"]
    /\ result = [t \in Threads |-> << >>]
    /\ entry = [t \in Threads |-> [src |-> << >>, trans |-> << >>]]
    /\ log = << >>
    /\ overlapped = FALSE

\* One caller at a time (the supported use).
Init == Construct(BOOLEAN, Limits, 1)

\* Two caller threads share one instance with context enabled.
InitConc == Construct({TRUE}, {1}, 2)

\* One caller; the limits 0 and 1 make a single call reach every step.
InitNorm == Construct(BOOLEAN, {0, 1}, 1)

(* ------------------------------- translate ----------------------------- *)

\* Return from translate with value v.
Return(t, v) ==
    /\ pc' = [pc EXCEPT ![t] = "idle"]
    /\ outcome' = [outcome EXCEPT ![t] = "returned"]
    /\ result' = [result EXCEPT ![t] = v]

\* translate, lines 106-132: build the messages and the payload, post it.
\* The composition only reads the window; it is taken as one step, the
\* steps of save_context, which write it, are taken one by one below.
Call(t, txt) ==
    /\ t <= workers
    /\ pc[t] = "idle"
    /\ pc' = [pc EXCEPT ![t] = "post"]
    /\ text' = [text EXCEPT ![t] = txt]
    /\ messages' = [messages EXCEPT ![t] = PayloadMessages(txt)]
    /\ t_text' = [t_text EXCEPT ![t] = << >>]
    /\ response' = [response EXCEPT ![t] = NoResponse]
    /\ outcome' = [outcome EXCEPT ![t] = "none"]
    /\ result' = [result EXCEPT ![t] = << >>]
    /\ entry' = [entry EXCEPT ![t] = [src |-> context_list,
                                      trans |-> context_translated_list]]
    /\ overlapped' = (overlapped \/ \E u \in Threads \ {t} : pc[u] # "idle")
    /\ UNCHANGED << config, context_list, context_translated_list, log >>

\* Variant: the except branch records the failed paragraph in the context.
RespondFailSaving(t, kind) ==
    /\ pc[t] = "post"
    /\ response' = [response EXCEPT ![t] = [kind |-> kind, content |-> << >>]]
    /\ IF context_flag
       THEN /\ pc' = [pc EXCEPT ![t] = "append_src"]
            /\ UNCHANGED << outcome, result >>
       ELSE Return(t, << >>)
    /\ UNCHANGED << config, context_list, context_translated_list, text,
                    messages, t_text, entry, log, overlapped >>

\* The try block raises (lines 131-142): the error is printed, "" returned.
RespondFail(t, kind) ==
    /\ pc[t] = "post"
    /\ response' = [response EXCEPT ![t] = [kind |-> kind, content |-> << >>]]
    /\ Return(t, << >>)
    /\ UNCHANGED << config, context_list, context_translated_list, text,
                    messages, t_text, entry, log, overlapped >>

\* The try block succeeds with a content that is not a string; re.sub on
\* line 145, outside the try block, raises TypeError.
RespondNonString(t, v) ==
    /\ pc[t] = "post"
    /\ response' = [response EXCEPT ![t] = [kind |-> v, content |-> << >>]]
    /\ pc' = [pc EXCEPT ![t] = "idle"]
    /\ outcome' = [outcome EXCEPT ![t] = "raised"]
    /\ UNCHANGED << config, context_list, context_translated_list, text,
                    messages, t_text, result, entry, log, overlapped >>

\* Variant: an empty translation is not saved ("if self.context_flag and t_text").
RespondOkSkipEmpty(t, c, cap) ==
    /\ pc[t] = "post"
    /\ Len(log) < cap
    /\ response' = [response EXCEPT ![t] = [kind |-> "ok", content |-> c]]
    /\ t_text' = [t_text EXCEPT ![t] = Cleanup(c)]
    /\ log' = Append(log, <<text[t], Cleanup(c)>>)
    /\ IF context_flag /\ Cleanup(c) # << >>
       THEN /\ pc' = [pc EXCEPT ![t] = "append_src"]
            /\ UNCHANGED << outcome, result >>
       ELSE Return(t, Cleanup(c))
    /\ UNCHANGED << config, context_list, context_translated_list, text,
                    messages, entry, overlapped >>

\* The try block succeeds with the string c (lines 131-150): clean up, then
\* enter save_context when the context is enabled, else return.
RespondOk(t, c, cap) ==
    /\ pc[t] = "post"
    /\ Len(log) < cap
    /\ response' = [response EXCEPT ![t] = [kind |-> "ok", content |-> c]]
    /\ t_text' = [t_text EXCEPT ![t] = Cleanup(c)]
    /\ log' = Append(log, <<text[t], Cleanup(c)>>)
    /\ IF context_flag
       THEN /\ pc' = [pc EXCEPT ![t] = "append_src"]
            /\ UNCHANGED << outcome, result >>
       ELSE Return(t, Cleanup(c))
    /\ UNCHANGED << config, context_list, context_translated_list, text,
                    messages, entry, overlapped >>

(* ------------------------------ save_context --------------------------- *)

\* line 98
AppendSrc(t) ==
    /\ pc[t] = "append_src"
    /\ context_list' = Append(context_list, text[t])
    /\ pc' = [pc EXCEPT ![t] = "append_trans"]
    /\ UNCHANGED << config, context_translated_list, text, messages, t_text,
                    response, outcome, result, entry, log, overlapped >>

\* Variant: the translation is inserted at the front of the list.
AppendTransFront(t) ==
    /\ pc[t] = "append_trans"
    /\ context_translated_list' = <<t_text[t]>> \o context_translated_list
    /\ pc' = [pc EXCEPT ![t] = "check"]
    /\ UNCHANGED << config, context_list, text, messages, t_text,
                    response, outcome, result, entry, log, overlapped >>

\* line 99
AppendTrans(t) ==
    /\ pc[t] = "append_trans"
    /\ context_translated_list' = Append(context_translated_list, t_text[t])
    /\ pc' = [pc EXCEPT ![t] = "check"]
    /\ UNCHANGED << config, context_list, text, messages, t_text,
                    response, outcome, result, entry, log, overlapped >>

\* Variant: the window is trimmed one entry too late.
CheckLenLate(t) ==
    /\ pc[t] = "check"
    /\ IF Len(context_list) > context_paragraph_limit + 1
       THEN /\ pc' = [pc EXCEPT ![t] = "pop_src"]
            /\ UNCHANGED << outcome, result >>
       ELSE Return(t, t_text[t])
    /\ UNCHANGED << config, context_list, context_translated_list, text,
                    messages, t_text, response, entry, log, overlapped >>

\* Variant: a limit that is not positive is taken to mean "no limit".
CheckLenPositiveOnly(t) ==
    /\ pc[t] = "check"
    /\ IF context_paragraph_limit > 0 /\ Len(context_list) > context_paragraph_limit
       THEN /\ pc' = [pc EXCEPT ![t] = "pop_src"]
            /\ UNCHANGED << outcome, result >>
       ELSE Return(t, t_text[t])
    /\ UNCHANGED << config, context_list, context_translated_list, text,
                    messages, t_text, response, entry, log, overlapped >>

\* line 102; when the limit is not exceeded save_context and translate return
CheckLen(t) ==
    /\ pc[t] = "check"
    /\ IF Len(context_list) > context_paragraph_limit
       THEN /\ pc' = [pc EXCEPT ![t] = "pop_src"]
            /\ UNCHANGED << outcome, result >>
       ELSE Return(t, t_text[t])
    /\ UNCHANGED << config, context_list, context_translated_list, text,
                    messages, t_text, response, entry, log, overlapped >>

\* line 103
PopSrc(t) ==
    /\ pc[t] = "pop_src"
    /\ context_list' = Pop0(context_list)
    /\ pc' = [pc EXCEPT ![t] = "pop_trans"]
    /\ UNCHANGED << config, context_translated_list, text, messages, t_text,
                    response, outcome, result, entry, log, overlapped >>

\* line 104, then line 152
PopTrans(t) ==
    /\ pc[t] = "pop_trans"
    /\ context_translated_list' = Pop0(context_translated_list)
    /\ Return(t, t_text[t])
    /\ UNCHANGED << config, context_list, text, messages, t_text,
                    response, entry, log, overlapped >>

(* ---------------------------- specifications --------------------------- *)

Next ==
    \E t \in Threads :
        \/ \E txt \in Texts : Call(t, txt)
        \/ \E kind \in FailureKinds : RespondFail(t, kind)
        \/ \E v \in NonStrings : RespondNonString(t, v)
        \/ \E c \in Replies : RespondOk(t, c, MaxCalls)
        \/ AppendSrc(t)
        \/ AppendTrans(t)
        \/ CheckLen(t)
        \/ PopSrc(t)
        \/ PopTrans(t)

\* As Next, with one successful reply drawn from the whole reply space.
NextNorm ==
    \E t \in Threads :
        \/ \E txt \in Texts : Call(t, txt)
        \/ \E kind \in FailureKinds : RespondFail(t, kind)
        \/ \E v \in NonStrings : RespondNonString(t, v)
        \/ \E c \in ReplySpace : RespondOk(t, c, 1)
        \/ AppendSrc(t)
        \/ AppendTrans(t)
        \/ CheckLen(t)
        \/ PopSrc(t)
        \/ PopTrans(t)

\* As Next for two caller threads, with one failure, one non-string content
\* and two distinct replies, ConcCalls of them successful.
NextConc ==
    \E t \in Threads :
        \/ \E txt \in Texts : Call(t, txt)
        \/ RespondFail(t, "Timeout")
        \/ RespondNonString(t, "null")
        \/ \E c \in {<<"a">>, <<"b">>} : RespondOk(t, c, ConcCalls)
        \/ AppendSrc(t)
        \/ AppendTrans(t)
        \/ CheckLen(t)
        \/ PopSrc(t)
        \/ PopTrans(t)

Spec == Init /\ [][Next]_vars

SpecConc == InitConc /\ [][NextConc]_vars

SpecNorm == InitNorm /\ [][NextNorm]_vars

TypeOK ==
    /\ context_flag \in BOOLEAN
    /\ context_paragraph_limit \in Limits
    /\ pc \in [Threads -> {"idle", "post", "append_src", "append_trans",
                           "check", "pop_src", "pop_trans"}]
    /\ outcome \in [Threads -> {"none", "returned", "raised"}]

(* ------------------------------ properties ----------------------------- *)

\* No translate call is in flight.
Quiescent == \A t \in Threads : pc[t] = "idle"

Min(a, b) == IF a < b THEN a ELSE b

\* The last n entries of s.
LastN(s, n) == SubSeq(s, Len(s) - n + 1, Len(s))

\* The default template rendered for the paragraph txt, written out.
RenderedPrompt(txt) ==
    << "Help me translate the text within triple backticks into ", "French",
       ".", NL, "Provide only the translated result.", NL, FENCE >>
    \o txt \o <<FENCE>>

\* The paragraphs of list, oldest first, with a blank line between
\* neighbours (built from the left).
BlankLineJoined(list) ==
    LET F[i \in 0..Len(list)] ==
            IF i = 0 THEN << >>
            ELSE IF i = 1 THEN list[1]
            ELSE F[i - 1] \o <<NL, NL>> \o list[i]
    IN  F[Len(list)]

\* s without every newline that is preceded by two newlines: of each
\* maximal run of newlines the first two are kept.
KeepTwoNewlines(s) ==
    LET Dropped(i) == i >= 3 /\ s[i] = NL /\ s[i - 1] = NL /\ s[i - 2] = NL
        F[i \in 0..Len(s)] ==
            IF i = 0 THEN << >>
            ELSE IF Dropped(i) THEN F[i - 1] ELSE Append(F[i - 1], s[i])
    IN  F[Len(s)]

HasTripleNewline(s) ==
    \E i \in 1..(Len(s) - 2) : s[i] = NL /\ s[i + 1] = NL /\ s[i + 2] = NL

Roles(m) == [i \in 1..Len(m) |-> m[i].role]

\* The window holds exactly the last min(N, limit) logged pairs, in order.
WindowIsRecentLog ==
    LET n == Min(Len(log), context_paragraph_limit)
        recent == LastN(log, n)
    IN  /\ context_list = [i \in 1..n |-> recent[i][1]]
        /\ context_translated_list = [i \in 1..n |-> recent[i][2]]

\* The window after the pair (txt, reply) is appended to the window w and
\* the eviction rule is applied.
WindowAfter(w, txt, reply) ==
    IF Len(w.src) + 1 > context_paragraph_limit
    THEN [src |-> Tail(Append(w.src, txt)), trans |-> Tail(Append(w.trans, reply))]
    ELSE [src |-> Append(w.src, txt), trans |-> Append(w.trans, reply)]

Window == [src |-> context_list, trans |-> context_translated_list]

\* C1: with a positive limit, whenever no call is in flight the two
\* histories have the same length and that length is at most the limit.
Inv_C1 ==
    (context_paragraph_limit >= 1 /\ Quiescent) =>
        /\ Len(context_list) = Len(context_translated_list)
        /\ Len(context_list) <= context_paragraph_limit

\* C1 witness: a full window after a call that had to evict, and a failed
\* call completed last.
Wit_C1 ==
    /\ Quiescent /\ context_flag /\ context_paragraph_limit >= 1
    /\ Len(context_list) = context_paragraph_limit
    /\ Len(log) > context_paragraph_limit
    /\ response[1].kind \in FailureKinds

\* C2: with the context enabled and a limit L >= 1, whenever no call is in
\* flight the window holds the texts of the last min(N, L) successful calls
\* in call order, each with the cleaned reply returned for it, and the value
\* returned by the last successful call is the logged one.
Inv_C2 ==
    (context_flag /\ context_paragraph_limit >= 1 /\ Quiescent) =>
        /\ WindowIsRecentLog
        /\ \A t \in Threads :
              (response[t].kind = "ok") =>
                  /\ outcome[t] = "returned"
                  /\ log[Len(log)] = <<text[t], result[t]>>

\* C2 witness: more successful calls than the limit 2, two different
\* paragraphs retained.
Wit_C2 ==
    /\ Quiescent /\ context_flag /\ context_paragraph_limit = 2
    /\ Len(log) > 2
    /\ Len(context_list) = 2
    /\ context_list[1] # context_list[2]
    /\ context_translated_list[1] # context_translated_list[2]

\* C3: the messages of every request are [system, user, assistant, user]
\* when the context is enabled and the window was not empty when the call
\* started, and [system, user] otherwise; the system message is first and
\* the rendered live paragraph is last.
Inv_C3 ==
    \A t \in Threads :
        (messages[t] # << >>) =>
            LET m == messages[t]
                withContext == context_flag /\ entry[t].src # << >>
            IN  /\ withContext => Roles(m) = <<"system", "user", "assistant", "user">>
                /\ ~withContext => Roles(m) = <<"system", "user">>
                /\ m[1] = [role |-> "system", content |-> <<"You are a helpful assistant.">>]
                /\ m[Len(m)] = [role |-> "user", content |-> RenderedPrompt(text[t])]

\* C3 witness: a posted request of four messages.
Wit_C3 ==
    \E t \in Threads : pc[t] = "post" /\ Len(messages[t]) = 4

\* C4: a call that failed inside the exchange returned the empty string,
\* left both histories as they were when it started, and the context block
\* of the next request is the one the failed request carried.
Inv_C4 ==
    \A t \in Threads :
        (pc[t] = "idle" /\ response[t].kind \in FailureKinds) =>
            /\ outcome[t] = "returned"
            /\ result[t] = << >>
            /\ Window = entry[t]
            /\ create_context_messages = SubSeq(messages[t], 2, Len(messages[t]) - 1)

\* C4 witness: a call failed on the missing content path with a non-empty
\* window.
Wit_C4 ==
    /\ pc[1] = "idle" /\ response[1].kind = "KeyError"
    /\ context_flag /\ context_list # << >>

\* C5: every completed call returned a value; none raised.
Inv_C5 ==
    \A t \in Threads : outcome[t] # "raised"

\* C6: the value a successful call returns is the reply with the first two
\* newlines of every run kept and the others dropped, it has no three
\* consecutive newlines, and it is the value stored last in the translated
\* history.
Inv_C6 ==
    \A t \in Threads :
        (pc[t] = "idle" /\ response[t].kind = "ok") =>
            /\ outcome[t] = "returned"
            /\ result[t] = KeepTwoNewlines(response[t].content)
            /\ ~HasTripleNewline(result[t])
            /\ (context_flag /\ context_paragraph_limit >= 1) =>
                  /\ context_translated_list # << >>
                  /\ context_translated_list[Len(context_translated_list)] = result[t]

\* C6 witness: a stored reply that had a single newline and a run of three.
Wit_C6 ==
    /\ pc[1] = "idle" /\ response[1].kind = "ok"
    /\ context_flag /\ context_paragraph_limit >= 1
    /\ response[1].content = <<NL, "a", NL, NL, NL>>
    /\ result[1] = <<NL, "a", NL, NL>>
    /\ context_translated_list = <<result[1]>>

\* C7: a request with a context block carries exactly one user/assistant
\* pair: the template rendered with the source history as it stood when
\* the call started, joined by blank lines, and the translated history
\* joined the same way.
Inv_C7 ==
    \A t \in Threads :
        (Len(messages[t]) > 2) =>
            /\ Len(messages[t]) = 4
            /\ entry[t].src # << >>
            /\ messages[t][2] =
                  [role |-> "user",
                   content |-> RenderedPrompt(BlankLineJoined(entry[t].src))]
            /\ messages[t][3] =
                  [role |-> "assistant",
                   content |-> BlankLineJoined(entry[t].trans)]

\* C7 witness: a posted request whose context block compresses two
\* retained paragraphs.
Wit_C7 ==
    \E t \in Threads :
        /\ pc[t] = "post" /\ Len(messages[t]) = 4
        /\ Len(entry[t].src) = 2
        /\ entry[t].src[1] # entry[t].src[2]

\* C8: with the context enabled, a call answered by the empty string
\* returns "" and the window is the one at its start with (text, "")
\* appended and the eviction rule applied; a failed call returns "" too and
\* the window is the one at its start.
Inv_C8 ==
    \A t \in Threads :
        (context_flag /\ pc[t] = "idle") =>
            /\ (response[t].kind = "ok" /\ response[t].content = << >>) =>
                  /\ outcome[t] = "returned"
                  /\ result[t] = << >>
                  /\ Window = WindowAfter(entry[t], text[t], << >>)
            /\ (response[t].kind \in FailureKinds) =>
                  /\ outcome[t] = "returned"
                  /\ result[t] = << >>
                  /\ Window = entry[t]

\* C8 witness: an empty reply was appended to a window that already held a
\* pair.
Wit_C8 ==
    /\ pc[1] = "idle" /\ context_flag /\ context_paragraph_limit = 2
    /\ response[1].kind = "ok" /\ response[1].content = << >>
    /\ Len(context_list) = 2
    /\ context_list[2] = text[1]
    /\ context_translated_list[2] = << >>
    /\ context_translated_list[1] # << >>

\* A retained translation that is not the reply returned for its paragraph.
Misaligned ==
    \E i \in 1..Min(Len(context_list), Len(context_translated_list)) :
        \A k \in 1..Len(log) :
            log[k] # <<context_list[i], context_translated_list[i]>>

\* Fewer pairs retained than min(N, limit).
LostPair ==
    Len(context_list) < Min(Len(log), context_paragraph_limit)

\* C9: as long as no two calls have been in flight together, whenever no
\* call is in flight the window is aligned and holds the last min(N, L)
\* pairs.
Inv_C9 ==
    (~overlapped /\ Quiescent) => (WindowIsRecentLog /\ ~Misaligned /\ ~LostPair)

\* C9 witness: two calls overlapped and ended with a retained translation
\* that belongs to another paragraph.
Wit_C9 ==
    overlapped /\ Quiescent /\ Misaligned

\* Two calls overlapped and ended with fewer pairs than min(N, L).
RaceLosesPair ==
    overlapped /\ Quiescent /\ LostPair

\* C10: with the context enabled and a limit <= 0, both histories are empty
\* whenever no call is in flight, every request has two messages, and at
\* the length check the window is exactly the pair just appended.
Inv_C10 ==
    (context_flag /\ context_paragraph_limit <= 0) =>
        /\ Quiescent => (context_list = << >> /\ context_translated_list = << >>)
        /\ \A t \in Threads :
              /\ (messages[t] # << >>) => Len(messages[t]) = 2
              /\ (pc[t] = "check") =>
                    /\ context_list = <<text[t]>>
                    /\ context_translated_list = <<t_text[t]>>
              /\ (pc[t] = "pop_trans") => context_list = << >>

\* C10 witness: a negative limit, two successful calls completed.
Wit_C10 ==
    /\ context_flag /\ context_paragraph_limit < 0
    /\ Quiescent /\ Len(log) >= 2
    /\ response[1].kind = "ok"

====
